---- MODULE Spec2Model ----
(***************************************************************************)
(* Model of fuck_ad_rule.py: fetch the configured rule lists, drop         *)
(* comments, merge, deduplicate, sort, and write FuckAD.conf.              *)
(*                                                                         *)
(* A Python str is a sequence of code points.  A Python value that the    *)
(* code inspects with isinstance is a record [type, items]: for a str     *)
(* `items` holds its code points, for a list its elements, and for any    *)
(* other type it is empty.                                                 *)
(***************************************************************************)
EXTENDS Integers, Sequences, FiniteSets

(* ------------------------------ bounds -------------------------------- *)
MaxSources == 2      \* sources in a merge input
MaxLines == 3        \* lines in a merge input, over all its sources
MaxLineLen == 2      \* length of the exhaustively enumerated single lines
MaxFetchLen == 2     \* lines in one fetched body
MaxRules == 2        \* rules handed directly to write_rules_to_file

(* --------------------------- Python values ---------------------------- *)
None == [type |-> "NoneType", items |-> <<>>]
Number == [type |-> "int", items |-> <<>>]
Str(chars) == [type |-> "str", items |-> chars]
List(elems) == [type |-> "list", items |-> elems]

isinstance(v, t) == v.type = t

\* str.isspace(): the code points str.strip() removes
Whitespace == (9..13) \cup (28..32) \cup {133, 160, 5760} \cup (8192..8202)
                \cup {8232, 8233, 8239, 8287, 12288}

RECURSIVE lstrip(_)
lstrip(s) == IF s # <<>> /\ Head(s) \in Whitespace THEN lstrip(Tail(s)) ELSE s

RECURSIVE rstrip(_)
rstrip(s) ==
    IF s # <<>> /\ s[Len(s)] \in Whitespace
    THEN rstrip(SubSeq(s, 1, Len(s) - 1))
    ELSE s

strip(s) == rstrip(lstrip(s))

\* str.lower() on the ASCII range
lower(s) == [i \in 1..Len(s) |-> IF s[i] \in 65..90 THEN s[i] + 32 ELSE s[i]]

startswith(s, prefix) ==
    Len(s) >= Len(prefix) /\ SubSeq(s, 1, Len(prefix)) = prefix

\* "[adblock", "[version", "[filter"
MetaPrefixes == { <<91, 97, 100, 98, 108, 111, 99, 107>>,
                  <<91, 118, 101, 114, 115, 105, 111, 110>>,
                  <<91, 102, 105, 108, 116, 101, 114>> }

\* "#", ";", "!"
CommentMarkers == { <<35>>, <<59>>, <<33>> }

(* -------------------------- Line Classifier --------------------------- *)
\* the classifier with the prefix tests applied to the raw line
is_comment_or_empty_raw(line) ==
    IF line = None THEN TRUE
    ELSE LET stripped == strip(line.items)
             lowered == lower(line.items)
         IN  IF stripped = <<>> THEN TRUE
             ELSE IF \E m \in CommentMarkers : startswith(line.items, m) THEN TRUE
             ELSE IF \E p \in MetaPrefixes : startswith(lowered, p) THEN TRUE
             ELSE FALSE

is_comment_or_empty(line) ==
    IF line = None THEN TRUE
    ELSE LET stripped == strip(line.items)
             lowered == lower(stripped)
         IN  IF stripped = <<>> THEN TRUE
             ELSE IF \E m \in CommentMarkers : startswith(stripped, m) THEN TRUE
             ELSE IF \E p \in MetaPrefixes : startswith(lowered, p) THEN TRUE
             ELSE FALSE

(* -------------------------- Line Normalizer --------------------------- *)
\* the normalizer returning the line as it came
normalize_rule_line_asis(line) == IF line = None THEN <<>> ELSE line.items

normalize_rule_line(line) == IF line = None THEN <<>> ELSE strip(line.items)

(* ------------------------ list.sort() on str -------------------------- *)
RECURSIVE str_lt(_, _)
str_lt(a, b) ==
    IF b = <<>> THEN FALSE
    ELSE IF a = <<>> THEN TRUE
    ELSE IF Head(a) # Head(b) THEN Head(a) < Head(b)
    ELSE str_lt(Tail(a), Tail(b))

RECURSIVE sort_insert(_, _)
sort_insert(x, sorted) ==
    IF sorted = <<>> THEN <<x>>
    ELSE IF str_lt(x, Head(sorted)) THEN <<x>> \o sorted
    ELSE <<Head(sorted)>> \o sort_insert(x, Tail(sorted))

\* a sort() that leaves the list as it is
sort_skipped(l) == l

RECURSIVE sort(_)
sort(l) ==
    IF l = <<>> THEN <<>>
    ELSE sort_insert(l[Len(l)], sort(SubSeq(l, 1, Len(l) - 1)))

(* ---------------------- Merge-Deduplicate Engine ---------------------- *)
\* outcome of a call: the exception raised ("none" if it returned) and the
\* returned Python value
Returned(v) == [raised |-> "none", value |-> v]
Raised(e) == [raised |-> e, value |-> None]

\* a Python list of str
StrList(lines) == List([k \in 1..Len(lines) |-> Str(lines[k])])

\* the loop body without the `rule in unique_rules` test
scan_line_keep_duplicates(raw_line, acc) ==
    LET rule == normalize_rule_line(raw_line)
    IN  IF ~isinstance(raw_line, "str") THEN acc
        ELSE IF is_comment_or_empty(raw_line) THEN acc
        ELSE IF rule = <<>> THEN acc
        ELSE [unique_rules |-> acc.unique_rules \cup {rule},
              rules |-> Append(acc.rules, rule)]

\* one pass of the inner loop body for raw_line, acc = [unique_rules, rules]
scan_line(raw_line, acc) ==
    LET rule == normalize_rule_line(raw_line)
    IN  IF ~isinstance(raw_line, "str") THEN acc
        ELSE IF is_comment_or_empty(raw_line) THEN acc
        ELSE IF rule = <<>> THEN acc
        ELSE IF rule \in acc.unique_rules THEN acc
        ELSE [unique_rules |-> acc.unique_rules \cup {rule},
              rules |-> Append(acc.rules, rule)]

RECURSIVE scan_lines(_, _, _)
scan_lines(source_lines, k, acc) ==
    IF k > Len(source_lines) THEN acc
    ELSE scan_lines(source_lines, k + 1, scan_line(source_lines[k], acc))

RECURSIVE scan_sources(_, _, _)
scan_sources(sources, i, acc) ==
    IF i > Len(sources) THEN acc
    ELSE scan_sources(sources, i + 1,
            IF ~isinstance(sources[i], "list") THEN acc
            ELSE scan_lines(sources[i].items, 1, acc))

\* the engine without the emptiness test of its guard
merge_and_deduplicate_rules_noguard(multi) ==
    IF ~isinstance(multi, "list")
    THEN Raised("ValueError")
    ELSE Returned(StrList(sort(scan_sources(multi.items, 1,
                          [unique_rules |-> {}, rules |-> <<>>]).rules)))

\* the engine rejecting a collection that holds a source that is not a list
merge_and_deduplicate_rules_strict(multi) ==
    IF ~isinstance(multi, "list") \/ multi.items = <<>>
          \/ \E i \in 1..Len(multi.items) : ~isinstance(multi.items[i], "list")
    THEN Raised("ValueError")
    ELSE Returned(StrList(sort(scan_sources(multi.items, 1,
                          [unique_rules |-> {}, rules |-> <<>>]).rules)))

merge_and_deduplicate_rules(multi) ==
    IF ~isinstance(multi, "list") \/ multi.items = <<>>
    THEN Raised("ValueError")
    ELSE Returned(StrList(sort(scan_sources(multi.items, 1,
                          [unique_rules |-> {}, rules |-> <<>>]).rules)))

(* --------------------------- Output Writer ---------------------------- *)
OUTPUT_FILE == <<70, 117, 99, 107, 65, 68, 46, 99, 111, 110, 102>>  \* "FuckAD.conf"

\* str(n) for n >= 0
RECURSIVE str_of_int(_)
str_of_int(n) ==
    IF n < 10 THEN <<48 + n>>
    ELSE Append(str_of_int(n \div 10), 48 + (n % 10))

\* %Y, %m, %d, %H, %M, %S: decimal, zero padded to `width`
RECURSIVE zero_padded(_, _)
zero_padded(n, width) ==
    IF width = 0 THEN <<>>
    ELSE Append(zero_padded(n \div 10, width - 1), 48 + (n % 10))

\* strftime("%Y-%m-%dT%H:%M:%SZ")
strftime(now) ==
    zero_padded(now.year, 4) \o <<45>> \o zero_padded(now.month, 2) \o <<45>>
      \o zero_padded(now.day, 2) \o <<84>> \o zero_padded(now.hour, 2) \o <<58>>
      \o zero_padded(now.minute, 2) \o <<58>> \o zero_padded(now.second, 2)
      \o <<90>>

UpdatedPrefix == <<35, 32, 85, 112, 100, 97, 116, 101, 100, 32, 116, 105, 109,
                   101, 58, 32>>                      \* "# Updated time: "
TotalPrefix == <<35, 32, 84, 111, 116, 97, 108, 32, 114, 117, 108, 101, 115,
                 58, 32>>                             \* "# Total rules: "
ThanksLine == <<35, 32, 84, 104, 97, 110, 107, 115, 58, 32, 97, 100, 114, 117,
                108, 101, 115, 46, 116, 111, 112, 32, 97, 110, 100, 32, 119,
                104, 97, 116, 115, 104, 117, 98, 46, 116, 111, 112>>
                                   \* "# Thanks: adrules.top and whatshub.top"

\* the header announcing one rule more than it is given
header_lines_off_by_one(stamp, total_rules) ==
    << UpdatedPrefix \o stamp,
       TotalPrefix \o str_of_int(total_rules + 1),
       ThanksLine,
       <<>> >>

header_lines(stamp, total_rules) ==
    << UpdatedPrefix \o stamp,
       TotalPrefix \o str_of_int(total_rules),
       ThanksLine,
       <<>> >>

(* ------------------------------ Fetcher ------------------------------- *)
\* code points at which str.splitlines() breaks a line
LineBoundaries == (10..13) \cup (28..30) \cup {133, 8232, 8233}

RECURSIVE split_from(_, _)
split_from(text, cur) ==
    IF text = <<>> THEN (IF cur = <<>> THEN <<>> ELSE <<cur>>)
    ELSE IF Head(text) = 13 /\ Len(text) >= 2 /\ text[2] = 10
         THEN <<cur>> \o split_from(SubSeq(text, 3, Len(text)), <<>>)
    ELSE IF Head(text) \in LineBoundaries
         THEN <<cur>> \o split_from(Tail(text), <<>>)
    ELSE split_from(Tail(text), Append(cur, Head(text)))

splitlines(text) == split_from(text, <<>>)

\* response = what urlopen and the decoding loop yield for this request:
\* error is the exception urlopen raises ("none" if it returns), status the
\* response status, text the body decoded by the first encoding that gives a
\* non-empty string (empty if none does)
fetch_lines_from_url(url, response) ==
    IF url = "" THEN Raised("ValueError")
    ELSE IF response.error # "none" THEN Raised("RuntimeError")
    ELSE IF response.status # 200 THEN Raised("RuntimeError")
    ELSE IF response.text = <<>> THEN Raised("RuntimeError")
    ELSE Returned(StrList(splitlines(response.text)))

(* ------------------------------ inputs -------------------------------- *)
SeqsUpTo(S, n) == UNION { [1..k -> S] : k \in 0..n }

\* lines of the multi-source merge inputs: "a", " a", "B", and an element
\* that is not a str
CoreItems == { Str(<<97>>), Str(<<32, 97>>), Str(<<66>>), Number }

\* [["ab", "a"], ["B", "ab "]]: a rule that is a prefix of another
PrefixSample ==
    List(<< List(<< Str(<<97, 98>>), Str(<<97>>) >>),
            List(<< Str(<<66>>), Str(<<97, 98, 32>>) >>) >>)

\* space, tab, '!', '#', ';', '[', 'A', 'a'
Alphabet == {32, 9, 33, 35, 59, 91, 65, 97}

\* "[Adblock Plus 2.0]", " [VERSION 3]", "[Filter]", "[adbloc", "a[filter"
MetaSamples ==
    { <<91, 65, 100, 98, 108, 111, 99, 107, 32, 80, 108, 117, 115, 32, 50, 46,
        48, 93>>,
      <<32, 91, 86, 69, 82, 83, 73, 79, 78, 32, 51, 93>>,
      <<91, 70, 105, 108, 116, 101, 114, 93>>,
      <<91, 97, 100, 98, 108, 111, 99>>,
      <<97, 91, 102, 105, 108, 116, 101, 114>> }

SingleLines == SeqsUpTo(Alphabet, MaxLineLen) \cup MetaSamples

RuleA == <<114, 117, 108, 101, 65>>     \* "ruleA"
RuleB == <<114, 117, 108, 101, 66>>     \* "ruleB"
RuleC == <<114, 117, 108, 101, 67>>     \* "ruleC"

\* [["# comment", "ruleA", "", "ruleB"], ["ruleA", "; note", "ruleC"]]
Scenario ==
    List(<< List(<< Str(<<35, 32, 99, 111, 109, 109, 101, 110, 116>>),
                    Str(RuleA), Str(<<>>), Str(RuleB) >>),
            List(<< Str(RuleA), Str(<<59, 32, 110, 111, 116, 101>>),
                    Str(RuleC) >>) >>)

\* the sequences of n sources with at most t lines in all; a source is a list
\* of CoreItems or, not being a list, None
RECURSIVE SourceSeqs(_, _)
SourceSeqs(n, t) ==
    IF n = 0 THEN { <<>> }
    ELSE { <<None>> \o rest : rest \in SourceSeqs(n - 1, t) }
           \cup UNION { { <<List(ls)>> \o rest :
                            ls \in [1..l -> CoreItems],
                            rest \in SourceSeqs(n - 1, t - l) } : l \in 0..t }

MergeInputs ==
    { List(ss) : ss \in UNION { SourceSeqs(n, MaxLines) : n \in 0..MaxSources } }
      \cup { List(<< List(<< Str(l) >>) >>) : l \in SingleLines }
      \cup { Scenario, PrefixSample, None }

\* rules handed directly to the writer: "a", "B", "ab"
WriterRules == { Str(<<97>>), Str(<<66>>), Str(<<97, 98>>) }
WriterInputs == { List(rs) : rs \in SeqsUpTo(WriterRules, MaxRules) } \cup {None}
WriterPaths == { <<>>, OUTPUT_FILE }

\* instants datetime.now(timezone.utc) may return
Clock == { [year |-> 2026, month |-> 11, day |-> 3, hour |-> 4, minute |-> 5,
            second |-> 6],
           [year |-> 2025, month |-> 12, day |-> 31, hour |-> 23, minute |-> 59,
            second |-> 0] }

\* lines of the fetched bodies: " a", "#c"
FetchLines == { <<32, 97>>, <<35, 99>> }

RECURSIVE join_lines(_)
join_lines(ls) ==
    IF ls = <<>> THEN <<>> ELSE Head(ls) \o <<10>> \o join_lines(Tail(ls))

\* bodies: 1..MaxFetchLen lines each ended by "\n", and "B\r\na"
FetchedTexts ==
    { join_lines(ls) : ls \in SeqsUpTo(FetchLines, MaxFetchLen) \ {<<>>} }
      \cup { <<66, 13, 10, 97>> }

Responses ==
    { [error |-> "HTTPError", status |-> 404, text |-> <<>>],
      [error |-> "URLError", status |-> 0, text |-> <<>>],
      [error |-> "none", status |-> 204, text |-> <<>>],
      [error |-> "none", status |-> 200, text |-> <<>>] }
      \cup { [error |-> "none", status |-> 200, text |-> t] : t \in FetchedTexts }

ConfiguredUrls == << "https://adrules.top/adrules-surge.conf",
                     "https://whatshub.top/rule/AntiAD.list" >>

\* the values of the module-level list RULE_URLS that main is run with: the
\* list as shipped, and the list with entries removed
UrlLists == { SubSeq(ConfiguredUrls, 1, k) : k \in 0..Len(ConfiguredUrls) }

\* content of the output file left by an earlier run: "old\n"
PriorFile == <<111, 108, 100, 10>>

(* ------------------------------- state -------------------------------- *)
VARIABLES
    entry,               \* function under execution: "main", "merge", "write"
    pc,                  \* position in it
    RULE_URLS,           \* the configured sources
    idx,                 \* main: position of the for loop in RULE_URLS
    fetched,             \* URLs requested so far, in order
    all_source_lines,    \* main: list of fetched line lists
    multi_source_lines,  \* argument of a direct merge call
    merged,              \* what the direct merge call returned or raised
    merged_again,        \* the same for merge([merged])
    rules,               \* writer argument
    output_path,         \* writer argument
    updated_at,          \* writer: formatted timestamp
    written,             \* writer: lines written since open
    file,                \* content of the output file
    opened,              \* the output file has been opened for writing
    raised,              \* exception the entry function ended with
    exit_code            \* exit status of main, -1 while it has not exited

vars == << entry, pc, RULE_URLS, idx, fetched, all_source_lines,
           multi_source_lines, merged, merged_again, rules, output_path,
           updated_at, written, file, opened, raised, exit_code >>

Init ==
    /\ entry \in {"main", "merge", "write"}
    /\ pc = "start"
    /\ RULE_URLS \in (IF entry = "main" THEN UrlLists ELSE {ConfiguredUrls})
    /\ idx = 1
    /\ fetched = <<>>
    /\ all_source_lines = <<>>
    /\ multi_source_lines \in (IF entry = "merge" THEN MergeInputs ELSE {None})
    /\ merged = Raised("unset")
    /\ merged_again = Raised("unset")
    /\ rules \in (IF entry = "write" THEN WriterInputs ELSE {None})
    /\ output_path \in (IF entry = "write" THEN WriterPaths ELSE {<<>>})
    /\ updated_at = <<>>
    /\ written = 0
    /\ file = PriorFile
    /\ opened = FALSE
    /\ raised = "none"
    /\ exit_code = -1

(* ------------------------------- main --------------------------------- *)
\* an exception reaches the caller of the entry function; main prints and
\* calls sys.exit(1)
Fail(e) ==
    /\ raised' = e
    /\ pc' = "exit"
    /\ exit_code' = IF entry = "main" THEN 1 ELSE exit_code

\* one iteration of `for url in RULE_URLS` that goes on after a failed fetch
FetchSource_skip_failed ==
    /\ entry = "main" /\ pc = "start" /\ idx <= Len(RULE_URLS)
    /\ \E response \in Responses :
         LET lines == fetch_lines_from_url(RULE_URLS[idx], response)
         IN  /\ fetched' = Append(fetched, RULE_URLS[idx])
             /\ idx' = idx + 1
             /\ all_source_lines' =
                    IF lines.raised # "none" THEN all_source_lines
                    ELSE Append(all_source_lines, lines.value)
             /\ UNCHANGED << pc, raised, exit_code >>
    /\ UNCHANGED << entry, RULE_URLS, multi_source_lines, merged, merged_again,
                    rules, output_path, updated_at, written, file, opened >>

\* one iteration of `for url in RULE_URLS`
FetchSource ==
    /\ entry = "main" /\ pc = "start" /\ idx <= Len(RULE_URLS)
    /\ \E response \in Responses :
         LET lines == fetch_lines_from_url(RULE_URLS[idx], response)
         IN  /\ fetched' = Append(fetched, RULE_URLS[idx])
             /\ IF lines.raised # "none" \/ ~isinstance(lines.value, "list")
                THEN /\ Fail(lines.raised)
                     /\ UNCHANGED << idx, all_source_lines >>
                ELSE /\ all_source_lines' = Append(all_source_lines, lines.value)
                     /\ idx' = idx + 1
                     /\ UNCHANGED << pc, raised, exit_code >>
    /\ UNCHANGED << entry, RULE_URLS, multi_source_lines, merged, merged_again,
                    rules, output_path, updated_at, written, file, opened >>

\* the merge stage handing an empty rule list on when the merge raises
MergeStage_ignore_failure ==
    /\ entry = "main" /\ pc = "start" /\ idx > Len(RULE_URLS)
    /\ LET merged_rules == merge_and_deduplicate_rules(List(all_source_lines))
       IN  /\ rules' = IF merged_rules.raised # "none" THEN List(<<>>)
                       ELSE merged_rules.value
           /\ output_path' = OUTPUT_FILE
           /\ pc' = "write"
           /\ UNCHANGED << raised, exit_code >>
    /\ UNCHANGED << entry, RULE_URLS, idx, fetched, all_source_lines,
                    multi_source_lines, merged, merged_again, updated_at,
                    written, file, opened >>

\* the loop is over: merge, and on success call the writer
MergeStage ==
    /\ entry = "main" /\ pc = "start" /\ idx > Len(RULE_URLS)
    /\ LET merged_rules == merge_and_deduplicate_rules(List(all_source_lines))
       IN  IF merged_rules.raised # "none"
           THEN /\ Fail(merged_rules.raised)
                /\ UNCHANGED << rules, output_path >>
           ELSE /\ rules' = merged_rules.value
                /\ output_path' = OUTPUT_FILE
                /\ pc' = "write"
                /\ UNCHANGED << raised, exit_code >>
    /\ UNCHANGED << entry, RULE_URLS, idx, fetched, all_source_lines,
                    multi_source_lines, merged, merged_again, updated_at,
                    written, file, opened >>

(* --------------------------- writer steps ----------------------------- *)
WriterCalled ==
    \/ entry = "write" /\ pc = "start"
    \/ entry = "main" /\ pc = "write"

\* header_lines followed by the rules, as the two loops write them
lines_to_write ==
    header_lines(updated_at, Len(rules.items))
      \o [k \in 1..Len(rules.items) |-> rules.items[k].items]

\* argument checks, timestamp, and open(output_path, "w"), which either
\* raises OSError and leaves the file alone or truncates it
WriteBegin ==
    /\ WriterCalled
    /\ IF output_path = <<>> \/ rules = None
       THEN /\ Fail("ValueError")
            /\ UNCHANGED << updated_at, written, file, opened >>
       ELSE \E now \in Clock, open_ok \in BOOLEAN :
              /\ updated_at' = strftime(now)
              /\ IF open_ok
                 THEN /\ file' = <<>>
                      /\ opened' = TRUE
                      /\ written' = 0
                      /\ pc' = "writing"
                      /\ UNCHANGED << raised, exit_code >>
                 ELSE /\ Fail("RuntimeError")
                      /\ UNCHANGED << written, file, opened >>
    /\ UNCHANGED << entry, RULE_URLS, idx, fetched, all_source_lines,
                    multi_source_lines, merged, merged_again, rules,
                    output_path >>

\* f.write(line + "\n") for the next header line or rule
WriteLine ==
    /\ pc = "writing" /\ written < Len(lines_to_write)
    /\ file' = file \o lines_to_write[written + 1] \o <<10>>
    /\ written' = written + 1
    /\ UNCHANGED << entry, pc, RULE_URLS, idx, fetched, all_source_lines,
                    multi_source_lines, merged, merged_again, rules,
                    output_path, updated_at, opened, raised, exit_code >>

\* a write, or the flush on leaving the with block, raises OSError: the file
\* is closed with what reached it and RuntimeError goes to the caller
WriteFail ==
    /\ pc = "writing"
    /\ Fail("RuntimeError")
    /\ UNCHANGED << entry, RULE_URLS, idx, fetched, all_source_lines,
                    multi_source_lines, merged, merged_again, rules,
                    output_path, updated_at, written, file, opened >>

\* both loops are over, the with block closes the file and the writer
\* returns; main then ends with status 0
WriteClose ==
    /\ pc = "writing" /\ written = Len(lines_to_write)
    /\ pc' = "exit"
    /\ exit_code' = IF entry = "main" THEN 0 ELSE exit_code
    /\ UNCHANGED << entry, RULE_URLS, idx, fetched, all_source_lines,
                    multi_source_lines, merged, merged_again, rules,
                    output_path, updated_at, written, file, opened, raised >>

(* ------------------------ direct merge calls -------------------------- *)
\* merge_and_deduplicate_rules(multi_source_lines)
MergeCall ==
    /\ entry = "merge" /\ pc = "start"
    /\ merged' = merge_and_deduplicate_rules(multi_source_lines)
    /\ raised' = merged'.raised
    /\ pc' = IF merged'.raised # "none" THEN "exit" ELSE "returned"
    /\ UNCHANGED << entry, RULE_URLS, idx, fetched, all_source_lines,
                    multi_source_lines, merged_again, rules, output_path,
                    updated_at, written, file, opened, exit_code >>

\* merge_and_deduplicate_rules([merged])
MergeFeedback ==
    /\ entry = "merge" /\ pc = "returned"
    /\ merged_again' = merge_and_deduplicate_rules(List(<< merged.value >>))
    /\ pc' = "exit"
    /\ UNCHANGED << entry, RULE_URLS, idx, fetched, all_source_lines,
                    multi_source_lines, merged, rules, output_path,
                    updated_at, written, file, opened, raised, exit_code >>

Next ==
    \/ FetchSource
    \/ MergeStage
    \/ WriteBegin
    \/ WriteLine
    \/ WriteFail
    \/ WriteClose
    \/ MergeCall
    \/ MergeFeedback

Spec == Init /\ [][Next]_vars

(* ===================== properties of the merge ======================== *)
\* every list a merge has returned so far
MergeOutputs ==
    (IF entry = "merge" /\ pc # "start" /\ merged.raised = "none"
        THEN {merged.value} ELSE {})
      \cup (IF entry = "merge" /\ pc = "exit" /\ merged_again.raised = "none"
               THEN {merged_again.value} ELSE {})
      \cup (IF entry = "main" /\ rules # None THEN {rules} ELSE {})

\* a <= b in code point order: equal, a proper prefix, or smaller at the
\* first position where they differ
LexLeq(a, b) ==
    \/ a = b
    \/ Len(a) < Len(b) /\ \A k \in 1..Len(a) : a[k] = b[k]
    \/ \E i \in 1..Len(a) :
         /\ i <= Len(b)
         /\ a[i] < b[i]
         /\ \A k \in 1..(i - 1) : a[k] = b[k]

\* C1: every sequence merge_and_deduplicate_rules returns is ascending in
\* code point order (a <= b for adjacent a, b) and holds no value twice
C1_SortedNoDuplicates ==
    \A out \in MergeOutputs :
        LET r == out.items
        IN  /\ \A i \in 1..(Len(r) - 1) :
                  LexLeq(r[i].items, r[i + 1].items) /\ r[i] # r[i + 1]
            /\ Cardinality({ r[i] : i \in 1..Len(r) }) = Len(r)

\* [["ab", "a"], ["B", "ab "]] has been merged into ["B", "a", "ab"]
C1_Witness ==
    /\ entry = "merge" /\ pc = "returned"
    /\ multi_source_lines = PrefixSample
    /\ merged.value = StrList(<< <<66>>, <<97>>, <<97, 98>> >>)

\* the string lines of the list sources of a merge input
StringLines(multi) ==
    { l \in UNION { { multi.items[i].items[j] : j \in 1..Len(multi.items[i].items) } :
                      i \in { n \in 1..Len(multi.items) :
                                multi.items[n].type = "list" } } :
        l.type = "str" }

Blank(s) == \A k \in 1..Len(s) : s[k] \in Whitespace

\* s without its leading and trailing whitespace
Trimmed(s) ==
    IF Blank(s) THEN <<>>
    ELSE LET first == CHOOSE i \in 1..Len(s) :
                        s[i] \notin Whitespace /\ \A k \in 1..(i - 1) : s[k] \in Whitespace
             last == CHOOSE j \in 1..Len(s) :
                        s[j] \notin Whitespace /\ \A k \in (j + 1)..Len(s) : s[k] \in Whitespace
         IN  [k \in 1..(last - first + 1) |-> s[first + k - 1]]

FoldCase(c) == IF c >= 65 /\ c <= 90 THEN c + 32 ELSE c

\* t starts with p when letter case is ignored
StartsIgnoringCase(t, p) ==
    Len(t) >= Len(p) /\ \A k \in 1..Len(p) : FoldCase(t[k]) = p[k]

\* the Line Classifier as the claim words it, s a string line
Discarded(s) ==
    LET t == Trimmed(s)
    IN  \/ t = <<>>
        \/ t[1] = 35 \/ t[1] = 59 \/ t[1] = 33
        \/ StartsIgnoringCase(t, <<91, 97, 100, 98, 108, 111, 99, 107>>)
        \/ StartsIgnoringCase(t, <<91, 118, 101, 114, 115, 105, 111, 110>>)
        \/ StartsIgnoringCase(t, <<91, 102, 105, 108, 116, 101, 114>>)

\* C2: for a non-empty list of sources the set of returned values is exactly
\* the set of trimmed forms of the string lines the classifier retains; no
\* returned value is empty, a comment, metadata or untrimmed; the scenario of
\* the specification gives ["ruleA", "ruleB", "ruleC"]
C2_ExactlyRetainedTrimmed ==
    (entry = "merge" /\ pc # "start" /\ multi_source_lines.type = "list"
        /\ multi_source_lines.items # <<>>)
    => /\ merged.raised = "none"
       /\ { merged.value.items[i].items : i \in 1..Len(merged.value.items) }
            = { Trimmed(l.items) :
                  l \in { x \in StringLines(multi_source_lines) : ~Discarded(x.items) } }
       /\ \A i \in 1..Len(merged.value.items) :
            LET r == merged.value.items[i]
            IN  /\ r.type = "str"
                /\ r.items # <<>>
                /\ ~Discarded(r.items)
                /\ Trimmed(r.items) = r.items
       /\ multi_source_lines = Scenario
            => merged.value = StrList(<< RuleA, RuleB, RuleC >>)

\* the scenario of the specification has been merged
C2_Witness ==
    /\ entry = "merge" /\ pc = "returned"
    /\ multi_source_lines = Scenario
    /\ merged.value = StrList(<< RuleA, RuleB, RuleC >>)

IndexPermutations(n) == { p \in [1..n -> 1..n] : \A i, j \in 1..n : p[i] = p[j] => i = j }

\* a source with its lines in any order
Reordered(source) ==
    IF source.type # "list" THEN {source}
    ELSE { List([k \in 1..Len(source.items) |-> source.items[p[k]]]) :
             p \in IndexPermutations(Len(source.items)) }

\* every way to reorder the lines inside each of the sources
RECURSIVE ReorderedEach(_)
ReorderedEach(sources) ==
    IF sources = <<>> THEN { <<>> }
    ELSE { <<h>> \o t : h \in Reordered(Head(sources)),
                        t \in ReorderedEach(Tail(sources)) }

\* the inputs got from multi by permuting its sources and the lines inside
\* each source
Rearrangements(multi) ==
    { List([i \in 1..Len(multi.items) |-> q[p[i]]]) :
        q \in ReorderedEach(multi.items),
        p \in IndexPermutations(Len(multi.items)) }

\* C3: the result does not depend on the order of the sources nor on the
\* order of the lines inside a source: every rearrangement of a non-empty
\* input merges to the same sequence
C3_OrderIndependent ==
    (entry = "merge" /\ pc # "start" /\ merged.raised = "none")
    => \A other \in Rearrangements(multi_source_lines) :
          merge_and_deduplicate_rules(other) = merged

\* [[" a", "B"], ["a"]]: its 4 rearrangements meet "a" before and after "B",
\* and " a" before and after "a"; the result is ["B", "a"]
C3_Witness ==
    /\ entry = "merge" /\ pc = "returned"
    /\ multi_source_lines =
         List(<< List(<< Str(<<32, 97>>), Str(<<66>>) >>),
                 List(<< Str(<<97>>) >>) >>)
    /\ Cardinality(Rearrangements(multi_source_lines)) = 4
    /\ merged.value = StrList(<< <<66>>, <<97>> >>)

\* C4: merging is idempotent: the input is left as it was, so a second run on
\* it sees the same input, and merging the result as a single source gives
\* the result again
C4_Idempotent ==
    (entry = "merge" /\ pc = "exit" /\ merged.raised = "none")
    => /\ merged_again = merged
       /\ merge_and_deduplicate_rules(multi_source_lines) = merged

\* the result of the scenario of the specification has been merged again
C4_Witness ==
    /\ entry = "merge" /\ pc = "exit"
    /\ multi_source_lines = Scenario
    /\ merged.value = StrList(<< RuleA, RuleB, RuleC >>)
    /\ merged_again.raised = "none"

\* C5: the merge raises ValueError and returns nothing when the collection is
\* empty or not a list; in main this ends the run with exit code 1 and the
\* output file never opened
C5_InvalidInput ==
    /\ (entry = "merge" /\ pc # "start"
          /\ (multi_source_lines.type # "list" \/ multi_source_lines.items = <<>>))
       => /\ merged = [raised |-> "ValueError", value |-> None]
          /\ raised = "ValueError"
          /\ pc = "exit"
    /\ (entry = "main" /\ pc # "start" /\ all_source_lines = <<>> /\ fetched = <<>>)
       => /\ raised = "ValueError"
          /\ pc = "exit"
          /\ exit_code = 1
          /\ ~opened
          /\ file = PriorFile

\* the merge has been called on []
C5_Witness ==
    /\ entry = "merge" /\ pc = "exit"
    /\ multi_source_lines = List(<<>>)
    /\ raised = "ValueError"

\* multi without the sources that are not lists and the lines that are not
\* strings
Cleaned(multi) ==
    LET lists == SelectSeq(multi.items, LAMBDA src : src.type = "list")
    IN  List([i \in 1..Len(lists) |->
                List(SelectSeq(lists[i].items, LAMBDA l : l.type = "str"))])

\* C6: on a non-empty list the merge returns, and what it returns is what it
\* returns without the non-list sources and non-string lines (the empty
\* sequence if no source is left)
C6_MalformedSkipped ==
    (entry = "merge" /\ pc # "start" /\ multi_source_lines.type = "list"
        /\ multi_source_lines.items # <<>>)
    => /\ merged.raised = "none"
       /\ IF Cleaned(multi_source_lines).items = <<>>
          THEN merged.value = List(<<>>)
          ELSE merged = merge_and_deduplicate_rules(Cleaned(multi_source_lines))

\* [None, [5, "a"]] has been merged into ["a"]
C6_Witness ==
    /\ entry = "merge" /\ pc = "returned"
    /\ multi_source_lines = List(<< None, List(<< Number, Str(<<97>>) >>) >>)
    /\ merged.value = StrList(<< <<97>> >>)

(* ================= properties of main and the writer ================== *)
\* a fetch has failed: a URL was requested and gave no line list
FetchFailed == Len(all_source_lines) < Len(fetched)

AllFetched ==
    Len(fetched) = Len(RULE_URLS) /\ Len(all_source_lines) = Len(RULE_URLS)

MergeSucceeded ==
    /\ idx > Len(RULE_URLS)
    /\ merge_and_deduplicate_rules(List(all_source_lines)).raised = "none"
    /\ rules = merge_and_deduplicate_rules(List(all_source_lines)).value

\* C7: in main the output file is opened only after every configured source
\* has been fetched and the merge has returned; while it has not been opened
\* it keeps its prior content, and a run ended by a failed fetch or merge has
\* never opened it
C7_OpenOnlyAfterMerge ==
    entry = "main"
    => /\ opened => (AllFetched /\ ~FetchFailed /\ MergeSucceeded)
       /\ ~opened => file = PriorFile
       /\ (pc = "exit" /\ (FetchFailed \/ ~MergeSucceeded))
            => (~opened /\ file = PriorFile)

\* main has opened the output file after fetching both sources
C7_Witness ==
    /\ entry = "main" /\ pc = "writing" /\ opened
    /\ Len(RULE_URLS) = 2 /\ Len(all_source_lines) = 2
    /\ file # PriorFile

\* the text a complete write leaves: every header line and every rule, each
\* ended by a newline
RECURSIVE TextOf(_)
TextOf(ls) == IF ls = <<>> THEN <<>> ELSE Head(ls) \o <<10>> \o TextOf(Tail(ls))

CompleteFile == TextOf(lines_to_write)

\* C8: after any run of main on the configured sources the output file holds
\* its complete prior content or the complete new header and rules, never a
\* part of them
C8_NoPartialOutput ==
    (entry = "main" /\ RULE_URLS = ConfiguredUrls /\ pc = "exit")
    => (file = PriorFile \/ (rules # None /\ file = CompleteFile))

\* C9: sources are requested one at a time in the configured order, none
\* twice; a failed fetch ends the run at once with exit code 1, before any
\* later fetch, the merge and the write; the run ends with 1 as well when the
\* merge or the write fails, and with 0 exactly when all of them succeeded
C9_ExitCodes ==
    entry = "main"
    => /\ Len(fetched) <= Len(RULE_URLS)
       /\ fetched = SubSeq(RULE_URLS, 1, Len(fetched))
       /\ FetchFailed
            => /\ Len(fetched) = Len(all_source_lines) + 1
               /\ pc = "exit" /\ exit_code = 1
               /\ rules = None /\ ~opened /\ file = PriorFile
       /\ pc # "exit" => exit_code = -1
       /\ pc = "exit" => exit_code \in {0, 1}
       /\ pc = "exit"
            => (exit_code = 0
                  <=> /\ AllFetched /\ ~FetchFailed
                      /\ MergeSucceeded
                      /\ opened /\ raised = "none"
                      /\ written = Len(lines_to_write)
                      /\ file = CompleteFile)
       /\ (pc = "exit" /\ raised # "none") => exit_code = 1

\* the fetch of the first of two sources failed and the run is over without
\* the second having been requested
C9_Witness ==
    /\ entry = "main" /\ pc = "exit" /\ exit_code = 1
    /\ Len(RULE_URLS) = 2
    /\ fetched = << RULE_URLS[1] >>
    /\ all_source_lines = <<>>

\* the lines of a text in which every line ends with a newline: the k-th
\* line lies between the (k-1)-th and the k-th newline
LinesOf(text) ==
    LET newlines == { i \in 1..Len(text) : text[i] = 10 }
        nth(k) == CHOOSE i \in newlines :
                     Cardinality({ j \in newlines : j < i }) = k - 1
    IN  [k \in 1..Cardinality(newlines) |->
            SubSeq(text, (IF k = 1 THEN 0 ELSE nth(k - 1)) + 1, nth(k) - 1)]

IsDigits(s) == s # <<>> /\ \A k \in 1..Len(s) : s[k] >= 48 /\ s[k] <= 57

\* the number a decimal numeral denotes
RECURSIVE ValueOf(_)
ValueOf(s) ==
    IF s = <<>> THEN 0 ELSE 10 * ValueOf(SubSeq(s, 1, Len(s) - 1)) + (s[Len(s)] - 48)

\* YYYY-MM-DDTHH:MM:SSZ
IsTimestamp(s) ==
    /\ Len(s) = 20
    /\ \A k \in {1, 2, 3, 4, 6, 7, 9, 10, 12, 13, 15, 16, 18, 19} :
          s[k] >= 48 /\ s[k] <= 57
    /\ s[5] = 45 /\ s[8] = 45 /\ s[11] = 84
    /\ s[14] = 58 /\ s[17] = 58 /\ s[20] = 90

WriterReturned ==
    /\ entry \in {"main", "write"} /\ pc = "exit" /\ raised = "none"

\* C10: when the writer returns, the file is the header block (timestamp
\* line, "# Total rules: N", attribution line, blank line) followed by the
\* given rules one per line in the given order, N being the number of rule
\* lines in the file; for no rules the file is the header block with N = 0
C10_FileContent ==
    WriterReturned
    => LET ls == LinesOf(file)
           stamp == SubSeq(ls[1], Len(UpdatedPrefix) + 1, Len(ls[1]))
           total == SubSeq(ls[2], Len(TotalPrefix) + 1, Len(ls[2]))
       IN  /\ file # <<>> /\ file[Len(file)] = 10
           /\ Len(ls) = 4 + Len(rules.items)
           /\ SubSeq(ls[1], 1, Len(UpdatedPrefix)) = UpdatedPrefix
           /\ IsTimestamp(stamp)
           /\ SubSeq(ls[2], 1, Len(TotalPrefix)) = TotalPrefix
           /\ IsDigits(total)
           /\ (Len(total) > 1 => total[1] # 48)
           /\ ValueOf(total) = Len(ls) - 4
           /\ ls[3] = ThanksLine
           /\ ls[4] = <<>>
           /\ \A k \in 1..Len(rules.items) : ls[4 + k] = rules.items[k].items
           /\ rules.items = <<>> => (Len(ls) = 4 /\ total = <<48>>)

\* the writer has returned from writing ["ab", "B"]
C10_Witness ==
    /\ entry = "write" /\ pc = "exit" /\ raised = "none"
    /\ rules = List(<< Str(<<97, 98>>), Str(<<66>>) >>)
    /\ Len(LinesOf(file)) = 6

====
